---- MODULE Spec2Model ----
(***************************************************************************)
(* bookgap: a Streamlit script that compares an uploaded book collection   *)
(* with each author's OpenLibrary bibliography (src/bookgap.py).           *)
(*                                                                         *)
(* The model follows one browser session: the script body runs from top   *)
(* to bottom on every interaction, get_author_works is memoised by         *)
(* st.cache_data, and find_missing_books runs once per author of the file. *)
(* Titles and author names are strings; a missing cell of the table is    *)
(* NaN.  The similarity scorer of rapidfuzz is an arbitrary but fixed      *)
(* table from (owned title, catalog title) to a score.                     *)
(***************************************************************************)
EXTENDS Integers, Sequences, FiniteSets, TLC

\* ------------------------------------------------------------------ bounds
MaxRows == 2
MaxRuns == 2
MaxDocs == 2

\* ------------------------------------------------------------- value sets
NaN == "NaN"
None == "None"

UserTitles == {"Dune", "dune messiah "}
CatalogTitles == {"Dune", "Dune Messiah"}
Authors == {"Frank Herbert", "J.R.R. Tolkien"}
ScoreVals == {80, 81, 90}
Required == {"Title", "Author"}

\* ---------------------------------------------------------------- helpers
Range(s) == {s[i] : i \in DOMAIN s}

SeqsUpTo(S, n) == UNION {[1..k -> S] : k \in 0..n}

Last(s) == s[Len(s)]

Min(a, b) == IF a < b THEN a ELSE b

\* df[name]: one column of the table, in row order
Column(df, name) == [i \in DOMAIN df.rows |-> df.rows[i][name]]

\* Series.dropna(): the values that are present, in order
Dropna_keep(col) == col
RECURSIVE Dropna(_)
Dropna(col) ==
    IF col = <<>> THEN <<>>
    ELSE IF Head(col) = NaN THEN Dropna(Tail(col))
    ELSE <<Head(col)>> \o Dropna(Tail(col))

\* Series.unique(): the distinct values in order of first appearance
RECURSIVE UniqueFrom(_, _)
UniqueFrom(col, seen) ==
    IF col = <<>> THEN <<>>
    ELSE IF Head(col) \in seen THEN UniqueFrom(Tail(col), seen)
    ELSE <<Head(col)>> \o UniqueFrom(Tail(col), seen \cup {Head(col)})

Unique(col) == UniqueFrom(col, {})

\* [doc["title"] for doc in docs if "title" in doc]
RECURSIVE DocTitles(_)
DocTitles(docs) ==
    IF docs = <<>> THEN <<>>
    ELSE IF Head(docs) = None THEN DocTitles(Tail(docs))
    ELSE <<Head(docs)>> \o DocTitles(Tail(docs))

\* list(set(works)): every title once, in the set's iteration order, which
\* the language leaves unspecified: any order is possible
Deduped(works) ==
    {s \in SeqsUpTo(Range(works), Cardinality(Range(works))) :
        /\ Len(s) = Cardinality(Range(works))
        /\ Range(s) = Range(works)}

\* process.extractOne(query, choices): scan the choices in order and keep
\* the first one with the highest score; no result (None in the code, key 0
\* here) when there is no choice
NoResult == [match |-> None, score |-> 0, key |-> 0]

RECURSIVE Scan(_, _, _, _, _)
Scan(sc, query, choices, k, best) ==
    IF k > Len(choices) THEN best
    ELSE LET s == sc[<<query, choices[k]>>]
         IN  IF best = NoResult \/ s > best.score
             THEN Scan(sc, query, choices, k + 1,
                       [match |-> choices[k], score |-> s, key |-> k])
             ELSE Scan(sc, query, choices, k + 1, best)

ExtractOne_query(sc, query, choices) ==
    LET r == Scan(sc, query, choices, 1, NoResult)
    IN  IF r = NoResult THEN NoResult ELSE [r EXCEPT !.match = query]

ExtractOne(sc, query, choices) == Scan(sc, query, choices, 1, NoResult)

\* if score > 80
Accepted_inclusive(s) == s >= 80
Accepted(s) == s > 80

\* missing = [book for book in all_works if book not in owned]
RECURSIVE MissingOf_inverted(_, _)
MissingOf_inverted(works, own) ==
    IF works = <<>> THEN <<>>
    ELSE IF Head(works) \notin Range(own) THEN MissingOf_inverted(Tail(works), own)
    ELSE <<Head(works)>> \o MissingOf_inverted(Tail(works), own)

RECURSIVE MissingOf(_, _)
MissingOf(works, own) ==
    IF works = <<>> THEN <<>>
    ELSE IF Head(works) \in Range(own) THEN MissingOf(Tail(works), own)
    ELSE <<Head(works)>> \o MissingOf(Tail(works), own)

\* the two return statements of find_missing_books
Return_first(own, miss, newest) ==
    IF newest /\ miss # <<>>
    THEN [owned |-> own, missing |-> <<Head(miss)>>]
    ELSE [owned |-> own, missing |-> miss]
Return_always(own, miss, newest) ==
    IF miss # <<>>
    THEN [owned |-> own, missing |-> <<Last(miss)>>]
    ELSE [owned |-> own, missing |-> miss]
Return(own, miss, newest) ==
    IF newest /\ miss # <<>>
    THEN [owned |-> own, missing |-> <<Last(miss)>>]
    ELSE [owned |-> own, missing |-> miss]

\* data["owned"][:10]
PreviewLen == 10
Preview(own) == SubSeq(own, 1, Min(PreviewLen, Len(own)))

\* ------------------------------------------------------------------ state
VARIABLES
    df,           \* the uploaded table: its columns and its rows
    newest_only,  \* the checkbox
    score,        \* the scorer: (owned title, catalog title) -> score
    cache,        \* st.cache_data of get_author_works: author -> works
    pc,           \* position of the script run
    err,          \* the exception that ended the run, or None
    runs,         \* script runs of this session so far
    user_books,   \* df["Title"].dropna().tolist()
    authors,      \* df["Author"].dropna().unique().tolist()
    ai,           \* index of the author loop
    results,      \* results, in insertion order
    export_rows,  \* export_rows
    all_works,    \* find_missing_books: all_works
    bi,           \* find_missing_books: index of the loop over user_books
    owned,        \* find_missing_books: owned
    ret,          \* find_missing_books: the returned pair
    shown,        \* what the run rendered
    fetches,      \* history: requests sent to the catalog, per author
    firstWorks,   \* history: the first bibliography resolved, per author
    lastResp,     \* history: the provider's answer within this call
    returns,      \* history: this run's find_missing_books results
    prev          \* history: the previous run's checkbox and results

session == <<score, cache, fetches, firstWorks>>
inputs == <<df, newest_only, runs, prev>>
loaded == <<user_books, authors>>
frame == <<all_works, bi, owned, ret, lastResp>>
output == <<results, export_rows, shown, returns>>
vars == <<df, newest_only, score, cache, pc, err, runs, user_books, authors,
          ai, results, export_rows, all_works, bi, owned, ret, shown,
          fetches, firstWorks, lastResp, returns, prev>>

\* a dict: a function on the keys it holds
NoEntries == [a \in {} |-> <<>>]
Put(d, k, v) == [x \in DOMAIN d \cup {k} |-> IF x = k THEN v ELSE d[x]]

NoReturn == [owned |-> <<>>, missing |-> <<>>]
Blank == [blank |-> TRUE]

Scorers == [UserTitles \X CatalogTitles -> ScoreVals]

ExactScorer == [p \in UserTitles \X CatalogTitles |->
                    IF p[1] = p[2] THEN 90 ELSE 80]
LenientScorer == [p \in UserTitles \X CatalogTitles |-> 81]

\* the files a user may upload: up to MaxRows rows of the given cells, or a
\* file without an Author column
Tables(titleCells, authorCells) ==
    {[cols |-> Required, rows |-> r] :
        r \in SeqsUpTo([Title : titleCells, Author : authorCells], MaxRows)}
    \cup {[cols |-> {"Title"}, rows |-> <<>>]}

InitWith(tables, scorers) ==
    /\ df \in tables
    /\ newest_only \in BOOLEAN
    /\ score \in scorers
    /\ cache = NoEntries
    /\ pc = "start"
    /\ err = None
    /\ runs = 1
    /\ user_books = <<>>
    /\ authors = <<>>
    /\ ai = 1
    /\ results = <<>>
    /\ export_rows = <<>>
    /\ all_works = <<>>
    /\ bi = 1
    /\ owned = <<>>
    /\ ret = NoReturn
    /\ shown = Blank
    /\ fetches = [a \in Authors |-> 0]
    /\ firstWorks = NoEntries
    /\ lastResp = None
    /\ returns = <<>>
    /\ prev = <<>>

\* one author, every title and every scorer
Init == InitWith(Tables(UserTitles \cup {NaN}, {"Frank Herbert"}), Scorers)

\* every author and missing cells in both columns, one title, two scorers
SessionInit ==
    InitWith(Tables({"Dune", NaN}, Authors \cup {NaN}),
             {ExactScorer, LenientScorer})

\* ---------------------------------------------------------------- actions
\* the script body up to the author loop
LoadCollection ==
    /\ pc = "start"
    /\ Required \subseteq df.cols
    /\ user_books' = Dropna(Column(df, "Title"))
    /\ authors' = Unique(Dropna(Column(df, "Author")))
    /\ ai' = 1
    /\ pc' = IF authors' # <<>> THEN "call" ELSE "render"
    /\ UNCHANGED <<session, inputs, frame, output, err>>

\* st.error("Your file needs 'Title' and 'Author' columns.")
MissingColumns ==
    /\ pc = "start"
    /\ ~(Required \subseteq df.cols)
    /\ shown' = [error |-> "columns"]
    /\ pc' = "done"
    /\ UNCHANGED <<session, inputs, loaded, frame, ai, err,
                   results, export_rows, returns>>

Enter(works) ==
    /\ all_works' = works
    /\ bi' = 1
    /\ owned' = <<>>
    /\ ret' = NoReturn
    /\ pc' = "match"
    /\ firstWorks' = IF authors[ai] \in DOMAIN firstWorks
                     THEN firstWorks
                     ELSE Put(firstWorks, authors[ai], works)

\* get_author_works answered from the cache
CacheHit ==
    /\ pc = "call"
    /\ authors[ai] \in DOMAIN cache
    /\ Enter(cache[authors[ai]])
    /\ lastResp' = "cached"
    /\ UNCHANGED <<score, cache, fetches, inputs, loaded, output, ai, err>>

Raise(e) ==
    /\ pc' = "crashed"
    /\ err' = e

\* requests.get raises: the provider is unreachable
FetchUnreachable ==
    /\ pc = "call"
    /\ authors[ai] \notin DOMAIN cache
    /\ fetches' = [fetches EXCEPT ![authors[ai]] = @ + 1]
    /\ lastResp' = "unreachable"
    /\ Raise("ConnectionError")
    /\ UNCHANGED <<score, cache, firstWorks, inputs, loaded, output, ai,
                   all_works, bi, owned, ret>>

\* resp.status_code != 200
FetchNon200 ==
    /\ pc = "call"
    /\ authors[ai] \notin DOMAIN cache
    /\ fetches' = [fetches EXCEPT ![authors[ai]] = @ + 1]
    /\ lastResp' = "status"
    /\ cache' = Put(cache, authors[ai], <<>>)
    /\ Enter(<<>>)
    /\ UNCHANGED <<score, inputs, loaded, output, ai, err>>

\* resp.json() raises: the body is not JSON
FetchBadBody ==
    /\ pc = "call"
    /\ authors[ai] \notin DOMAIN cache
    /\ fetches' = [fetches EXCEPT ![authors[ai]] = @ + 1]
    /\ lastResp' = "badbody"
    /\ Raise("JSONDecodeError")
    /\ UNCHANGED <<score, cache, firstWorks, inputs, loaded, output, ai,
                   all_works, bi, owned, ret>>

\* status 200 and a JSON body: data.get("docs", []), titles, dedupe
FetchOk ==
    /\ pc = "call"
    /\ authors[ai] \notin DOMAIN cache
    /\ fetches' = [fetches EXCEPT ![authors[ai]] = @ + 1]
    /\ lastResp' = "ok"
    /\ \E docs \in SeqsUpTo(CatalogTitles \cup {None}, MaxDocs) :
          \E works \in Deduped(DocTitles(docs)) :
             /\ cache' = Put(cache, authors[ai], works)
             /\ Enter(works)
    /\ UNCHANGED <<score, inputs, loaded, output, ai, err>>

\* one iteration of  for book in user_books
MatchStep ==
    /\ pc = "match"
    /\ bi <= Len(user_books)
    /\ ExtractOne(score, user_books[bi], all_works) # NoResult
    /\ LET r == ExtractOne(score, user_books[bi], all_works)
       IN  owned' = IF Accepted(r.score) THEN Append(owned, r.match) ELSE owned
    /\ bi' = bi + 1
    /\ UNCHANGED <<session, inputs, loaded, output, ai, err, pc,
                   all_works, ret, lastResp>>

\* match, score, _ = None
MatchRaises ==
    /\ pc = "match"
    /\ bi <= Len(user_books)
    /\ ExtractOne(score, user_books[bi], all_works) = NoResult
    /\ Raise("TypeError")
    /\ UNCHANGED <<session, inputs, loaded, output, ai, frame>>

\* the loop is over: build missing and return
Partition ==
    /\ pc = "match"
    /\ bi > Len(user_books)
    /\ ret' = Return(owned, MissingOf(all_works, owned), newest_only)
    /\ returns' = Append(returns, [author |-> authors[ai],
                                   owned |-> ret'.owned,
                                   missing |-> ret'.missing])
    /\ pc' = "returned"
    /\ UNCHANGED <<session, inputs, loaded, ai, err, all_works, bi, owned,
                   lastResp, results, export_rows, shown>>

RECURSIVE ExportRows(_, _)
ExportRows(author, miss) ==
    IF miss = <<>> THEN <<>>
    ELSE <<[Author |-> author, MissingTitle |-> Head(miss)]>>
         \o ExportRows(author, Tail(miss))

\* the body of the author loop after the call
StoreResult ==
    /\ pc = "returned"
    /\ IF ret.missing # <<>>
       THEN /\ results' = Append(results, [author |-> authors[ai],
                                           owned |-> ret.owned,
                                           missing |-> ret.missing])
            /\ export_rows' = export_rows \o ExportRows(authors[ai], ret.missing)
       ELSE UNCHANGED <<results, export_rows>>
    /\ ai' = ai + 1
    /\ pc' = IF ai < Len(authors) THEN "call" ELSE "render"
    /\ UNCHANGED <<session, inputs, loaded, frame, err, shown, returns>>

\* the report, or the balloons
Render ==
    /\ pc = "render"
    /\ shown' = IF results # <<>>
                THEN [report |-> [i \in DOMAIN results |->
                                    [author |-> results[i].author,
                                     ownedCount |-> Len(results[i].owned),
                                     preview |-> Preview(results[i].owned),
                                     missingCount |-> Len(results[i].missing)]],
                      csv |-> export_rows]
                ELSE [balloons |-> TRUE]
    /\ pc' = "done"
    /\ UNCHANGED <<session, inputs, loaded, frame, ai, err,
                   results, export_rows, returns>>

\* the user ticks or unticks the checkbox: the script runs again
Rerun ==
    /\ pc \in {"done", "crashed"}
    /\ runs < MaxRuns
    /\ newest_only' \in BOOLEAN
    /\ runs' = runs + 1
    /\ prev' = <<[newest_only |-> newest_only, returns |-> returns]>>
    /\ pc' = "start"
    /\ err' = None
    /\ user_books' = <<>>
    /\ authors' = <<>>
    /\ ai' = 1
    /\ results' = <<>>
    /\ export_rows' = <<>>
    /\ all_works' = <<>>
    /\ bi' = 1
    /\ owned' = <<>>
    /\ ret' = NoReturn
    /\ shown' = Blank
    /\ lastResp' = None
    /\ returns' = <<>>
    /\ UNCHANGED <<session, df>>

Next ==
    \/ LoadCollection
    \/ MissingColumns
    \/ CacheHit
    \/ FetchUnreachable
    \/ FetchNon200
    \/ FetchBadBody
    \/ FetchOk
    \/ MatchStep
    \/ MatchRaises
    \/ Partition
    \/ StoreResult
    \/ Render
    \/ Rerun

Spec == Init /\ [][Next]_vars

SessionSpec == SessionInit /\ [][Next]_vars

\* ----------------------------------------------------------------- claims

\* C1: on an empty bibliography find_missing_books returns normally, with an
\* empty ownedMatched and an empty missing, whatever the owned titles and
\* the checkbox; it never raises.
C1_EmptyBibliographyReturnsEmpty ==
    /\ pc = "crashed" => err # "TypeError"
    /\ (pc = "returned" /\ all_works = <<>>) =>
           (ret.owned = <<>> /\ ret.missing = <<>>)

\* C2: a bibliography title matched by several owned titles appears exactly
\* once in ownedMatched, so the owned count shown is the number of distinct
\* matched titles.
C2_OwnedMatchedHasNoDuplicates ==
    /\ pc = "returned" =>
           \A i, j \in DOMAIN ret.owned :
               ret.owned[i] = ret.owned[j] => i = j
    /\ (pc = "done" /\ results # <<>>) =>
           \A i \in DOMAIN shown.report :
               shown.report[i].ownedCount =
                   Cardinality(Range(results[i].owned))

\* C3: whenever the provider cannot produce data (non-success status,
\* unreachable, unusable body) get_author_works returns an empty collection
\* without raising, and find_missing_books does not fail either.
C3_ProviderFailureYieldsEmpty ==
    lastResp \in {"status", "unreachable", "badbody"} =>
        (pc # "crashed" /\ all_works = <<>>)

\* C4: with newestOnly false, the titles of ownedMatched together with the
\* titles of missing are exactly the bibliography.
C4_OwnedAndMissingCoverBibliography ==
    (pc = "returned" /\ ~newest_only) =>
        Range(ret.owned) \cup Range(ret.missing) = Range(all_works)

C4_Witness ==
    /\ pc = "returned"
    /\ ~newest_only
    /\ Len(user_books) = 2
    /\ ret.owned # <<>>
    /\ ret.missing # <<>>

\* C5: a bibliography title is in ownedMatched exactly when, for some owned
\* title, it is the first candidate with the highest score and that score is
\* strictly greater than 80: a best score of 80 adds nothing, 81 adds it.
C5_OwnedIffBestAbove80 ==
    pc = "returned" =>
        \A c \in CatalogTitles :
            c \in Range(ret.owned) <=>
                \E i \in DOMAIN user_books : \E k \in DOMAIN all_works :
                    LET s(x) == score[<<user_books[i], x>>]
                    IN  /\ all_works[k] = c
                        /\ \A j \in DOMAIN all_works :
                              /\ s(all_works[j]) <= s(c)
                              /\ j < k => s(all_works[j]) < s(c)
                        /\ s(c) > 80

C5_Witness ==
    /\ pc = "returned"
    /\ Len(all_works) = 2
    /\ Len(user_books) = 2
    /\ \A c \in Range(all_works) : score[<<user_books[1], c>>] = 80
    /\ score[<<user_books[2], all_works[1]>>] = 80
    /\ score[<<user_books[2], all_works[2]>>] = 81
    /\ ret.owned = <<all_works[2]>>

\* C6: on the same owned titles and bibliography, the run with newestOnly
\* returns the same ownedMatched as the run without it, and its missing is
\* the last element of the other run's missing (empty when that is empty);
\* without newestOnly, missing keeps the bibliography's order.
C6_NewestOnlyIsLastOfFull ==
    /\ (pc = "returned" /\ prev # <<>>) =>
           \A k \in DOMAIN prev[1].returns :
               LET now == [newest |-> newest_only, r |-> ret]
                   old == [newest |-> prev[1].newest_only,
                           r |-> prev[1].returns[k]]
                   Related(full, one) ==
                       /\ one.owned = full.owned
                       /\ one.missing =
                              IF full.missing # <<>>
                              THEN <<full.missing[Len(full.missing)]>>
                              ELSE <<>>
               IN  prev[1].returns[k].author = authors[ai] =>
                       /\ (now.newest /\ ~old.newest) => Related(old.r, now.r)
                       /\ (old.newest /\ ~now.newest) => Related(now.r, old.r)
    /\ (pc = "returned" /\ ~newest_only) =>
           \A i, j \in DOMAIN ret.missing :
               i < j => \E m, n \in DOMAIN all_works :
                           /\ m < n
                           /\ all_works[m] = ret.missing[i]
                           /\ all_works[n] = ret.missing[j]

C6_Witness ==
    /\ pc = "returned"
    /\ newest_only
    /\ prev # <<>>
    /\ ~prev[1].newest_only
    /\ user_books # <<>>
    /\ \E k \in DOMAIN prev[1].returns :
          /\ prev[1].returns[k].author = authors[ai]
          /\ Len(prev[1].returns[k].missing) = 2
          /\ ret.missing = <<all_works[2]>>

\* C7: with no owned titles and newestOnly false, ownedMatched is empty and
\* missing is the whole bibliography in its iteration order.
C7_NothingOwnedEverythingMissing ==
    (pc = "returned" /\ user_books = <<>> /\ ~newest_only) =>
        (ret.owned = <<>> /\ ret.missing = all_works)

C7_Witness ==
    /\ pc = "returned"
    /\ user_books = <<>>
    /\ ~newest_only
    /\ Len(all_works) = 2
    /\ ret.missing = all_works

\* C8: no title is both in ownedMatched and in missing, with either value of
\* newestOnly.
C8_OwnedAndMissingDisjoint ==
    pc = "returned" => Range(ret.owned) \cap Range(ret.missing) = {}

C8_Witness ==
    /\ pc = "returned"
    /\ newest_only
    /\ ret.owned # <<>>
    /\ ret.missing # <<>>

\* C9: a row whose Title or whose Author is missing is dropped as a whole:
\* the owned titles are the Titles of the complete rows and the authors are
\* the Authors of the complete rows.
C9_IncompleteRowsDropped ==
    (pc # "start" /\ Required \subseteq df.cols) =>
        LET Complete(r) == r.Title # NaN /\ r.Author # NaN
            rows == SelectSeq(df.rows, Complete)
        IN  /\ user_books = [i \in DOMAIN rows |-> rows[i].Title]
            /\ Range(authors) = {rows[i].Author : i \in DOMAIN rows}

\* C9 as amended: each column drops its own missing cells: the owned titles
\* are the Titles present, row by row, whatever the row's Author, and the
\* authors are the distinct Authors present, whatever the row's Title.
C9_MissingCellsDroppedPerColumn ==
    (pc # "start" /\ Required \subseteq df.cols) =>
        LET Titled(r) == r.Title # NaN
            rows == SelectSeq(df.rows, Titled)
        IN  /\ user_books = [i \in DOMAIN rows |-> rows[i].Title]
            /\ Range(authors) =
                   {df.rows[i].Author : i \in DOMAIN df.rows} \ {NaN}
            /\ \A i, j \in DOMAIN authors : authors[i] = authors[j] => i = j

C9_Witness ==
    /\ pc = "returned"
    /\ Len(df.rows) = 2
    /\ df.rows[1].Title # NaN /\ df.rows[1].Author = NaN
    /\ df.rows[2].Title = NaN /\ df.rows[2].Author # NaN
    /\ user_books = <<df.rows[1].Title>>
    /\ authors = <<df.rows[2].Author>>

\* C10: within a session the catalog is queried at most once per author
\* name, and every later resolution of the name returns the first
\* bibliography, in the same order.
C10_OneFetchPerAuthor ==
    /\ \A a \in Authors : fetches[a] <= 1
    /\ pc \in {"match", "returned"} => all_works = firstWorks[authors[ai]]

====
